---- MODULE Spec2Model ----
(***************************************************************************)
(* The read-through cache of server.js: five GET handlers (location,        *)
(* weather, events, movies, yelp) over one pg.Client connection and five    *)
(* tables (schema.sql).                                                     *)
(*                                                                          *)
(* One pg.Client runs its queries one at a time, in the order they were     *)
(* issued; `queue` is that order.  A step of the store takes the head of    *)
(* the queue, applies it to `tables` and runs the promise callback of the   *)
(* statement (the callback can only issue further statements, start a       *)
(* provider call or send the response, so running it together with the      *)
(* statement loses no interleaving).  Provider calls (superagent.get)       *)
(* complete in any order.                                                   *)
(***************************************************************************)
EXTENDS Integers, Sequences, FiniteSets, TLC

\* ------------------------------------------------------------------ bounds
\* requests received in one run (all of them may be in flight at once)
MaxReq == 2
\* items in one provider payload
MaxItems == 3
\* milliseconds past the threshold the clock reaches
MaxSkew == 1
\* statements of the store that fail in one run
MaxFaults == 1
\* statements still waiting on the connection when a request or a provider's
\* answer arrives
MaxBacklog == 0
\* requests received once the MaxReq requests of the run have completed
MaxAfter == 1

\* --------------------------------------------------------------- constants
timeoutsInMinutes == [weathers |-> 15 * 60 * 1000]

timeouts == [weathers |-> 15 * 1000]

MsPerDay == 86400000

TableNames == {"locations", "weathers", "events", "movies", "yelp"}

ListEndpoints == {"events", "movies", "yelp"}

\* request.query.data of /location, and request.query.data.id of the others
Queries == {"q1", "q2"}
LocationIds == {1, 2}

\* The instants Date.now() takes: the start, 15 seconds later, and past that.
Clock == {0, 15 * 1000, 15 * 1000 + MaxSkew}

Slots == 1..MaxReq

VARIABLES
  tables,   \* the rows of each table, in insertion order
  serial,   \* the next value of each table's SERIAL id
  queue,    \* the statements issued on the connection and not yet run
  now,      \* Date.now()
  reqs,     \* the requests being handled
  last,     \* the log of the request that completed last
  issued,   \* how many requests were received
  faults    \* how many statements failed

vars == <<tables, serial, queue, now, reqs, last, issued, faults>>

\* ----------------------------------------------------------------- helpers
Min(a, b) == IF a < b THEN a ELSE b

\* Array.prototype.slice(a, b)
slice(s, a, b) == SubSeq(s, a + 1, Min(b, Len(s)))

\* Array.prototype.map
map(Op(_), s) == [i \in 1..Len(s) |-> Op(s[i])]

\* Date.prototype.toString(): the date part (15 characters, "Thu Nov 05 2026")
\* followed by the time of day.
DateToString(ms) == <<ms \div MsPerDay, ms % MsPerDay>>

\* .slice(0, 15) of a date string keeps the date part
slice15(str) == str[1]

\* new Date("2019-11-05T19:00:00"): an ISO string <<day, second of day>>
DateParse(iso) == iso[1] * MsPerDay + iso[2] * 1000

\* A value stored in a NUMERIC(10, 7) column, in units of 10^-8: rounded to
\* 7 decimals, half away from zero.
Numeric10_7(x) ==
  IF x >= 0 THEN ((x + 5) \div 10) * 10 ELSE 0 - (((0 - x) + 5) \div 10) * 10

\* The row as the table holds it: the statement's columns and the SERIAL id.
WithId(row, id) ==
  [f \in DOMAIN row \cup {"id"} |-> IF f = "id" THEN id ELSE row[f]]

\* ------------------------------------------------------------ constructors
LocationOfLastResult(query, res) ==
  [tableName |-> "locations",
   search_query |-> query,
   formatted_query |-> res.body.results[Len(res.body.results)].formatted_address,
   latitude |-> res.body.results[Len(res.body.results)].geometry.location.lat,
   longitude |-> res.body.results[Len(res.body.results)].geometry.location.lng]

Location(query, res) ==
  [tableName |-> "locations",
   search_query |-> query,
   formatted_query |-> res.body.results[1].formatted_address,
   latitude |-> res.body.results[1].geometry.location.lat,
   longitude |-> res.body.results[1].geometry.location.lng]

Weather(day, t) ==
  [tableName |-> "weathers",
   forecast |-> day.summary,
   time |-> slice15(DateToString(day.time * 1000)),
   created_at |-> t]

Event(event) ==
  [tableName |-> "events",
   link |-> event.url,
   name |-> event.name.text,
   event_date |-> slice15(DateToString(DateParse(event.start.local))),
   summary |-> event.summary]

Movie(res) ==
  [tableName |-> "movies",
   title |-> res.title,
   overview |-> res.overview,
   average_votes |-> res.vote_average,
   total_votes |-> res.vote_count,
   image_url |-> <<"https://image.tmdb.org/t/p/w185/", res.poster_path>>,
   popularity |-> res.popularity,
   released_on |-> res.release_date]

Yelp(res) ==
  [tableName |-> "yelp",
   name |-> res.name,
   image_url |-> res.image_url,
   price |-> res.price,
   rating |-> res.rating,
   url |-> res.url]

\* ------------------------------------------------------------- statements
\* SELECT * FROM tableName WHERE location_id=$1
lookupSQL(tableName, location, r) ==
  [op |-> "select", tableName |-> tableName, column |-> "location_id",
   value |-> location, req |-> r]

\* SELECT * FROM locations WHERE search_query=$1
lookupLocationSQL(query, r) ==
  [op |-> "select", tableName |-> "locations", column |-> "search_query",
   value |-> query, req |-> r]

deleteLocation(table, city, r) ==
  [op |-> "delete", tableName |-> "locations", column |-> "id",
   value |-> city, req |-> r]

deleteByRowId(table, city, r) ==
  [op |-> "delete", tableName |-> table, column |-> "id",
   value |-> city, req |-> r]

\* DELETE from table WHERE location_id=city
deleteByLocationId(table, city, r) ==
  [op |-> "delete", tableName |-> table, column |-> "location_id",
   value |-> city, req |-> r]

LocationSave(self, r) ==
  [op |-> "insert", tableName |-> "locations", req |-> r,
   row |-> [search_query |-> self.search_query,
            formatted_query |-> self.formatted_query,
            latitude |-> self.latitude,
            longitude |-> self.longitude]]

WeatherSaveElsewhere(self, location_id, r) ==
  [op |-> "insert", tableName |-> self.tableName, req |-> r,
   row |-> [forecast |-> self.forecast, time |-> self.time,
            created_at |-> self.created_at, location_id |-> 3 - location_id]]

WeatherSave(self, location_id, r) ==
  [op |-> "insert", tableName |-> self.tableName, req |-> r,
   row |-> [forecast |-> self.forecast, time |-> self.time,
            created_at |-> self.created_at, location_id |-> location_id]]

EventSave(self, location_id, r) ==
  [op |-> "insert", tableName |-> self.tableName, req |-> r,
   row |-> [link |-> self.link, name |-> self.name,
            event_date |-> self.event_date, summary |-> self.summary,
            location_id |-> location_id]]

MovieSave(self, location_id, r) ==
  [op |-> "insert", tableName |-> self.tableName, req |-> r,
   row |-> [title |-> self.title, overview |-> self.overview,
            average_votes |-> self.average_votes,
            total_votes |-> self.total_votes, image_url |-> self.image_url,
            popularity |-> self.popularity, released_on |-> self.released_on,
            location_id |-> location_id]]

YelpSave(self, location_id, r) ==
  [op |-> "insert", tableName |-> self.tableName, req |-> r,
   row |-> [name |-> self.name, url |-> self.url,
            image_url |-> self.image_url, rating |-> self.rating,
            price |-> self.price, location_id |-> location_id]]

\* ------------------------------------------------------------ the providers
\* What a provider answers is outside the program: a payload of n items, item
\* i carrying its own value in every field.
Field(i, k) == 10 * i + k

\* maps.googleapis.com geocode: no result, coordinates of at most 7 decimals,
\* coordinates of more than 7 decimals (units of 10^-8 degrees), or several
\* results.
GeocodeKinds == {"none", "short", "long", "several"}

GeocodeResult(address, lat, lng) ==
  [formatted_address |-> address,
   geometry |-> [location |-> [lat |-> lat, lng |-> lng]]]

Geocode(kind) ==
  [body |-> [results |->
     CASE kind = "none" -> <<>>
       [] kind = "short" ->
            <<GeocodeResult("short", 1248000000, 0 - 1221900000)>>
       [] kind = "long" ->
            <<GeocodeResult("long", 1247987815, 0 - 1221934564)>>
       [] kind = "several" ->
            <<GeocodeResult("first", 1240000000, 0 - 1220000000),
              GeocodeResult("second", 1250000000, 0 - 1230000000)>>]]

DarkSky(n) ==
  [body |-> [daily |-> [data |->
     [i \in 1..n |-> [summary |-> Field(i, 1), time |-> i * 86400 + 3600]]]]]

Eventbrite(n) ==
  [body |-> [events |->
     [i \in 1..n |-> [url |-> Field(i, 1), name |-> [text |-> Field(i, 2)],
                      start |-> [local |-> <<i, 3600>>],
                      summary |-> Field(i, 3)]]]]

Tmdb(n) ==
  [body |-> [results |->
     [i \in 1..n |-> [title |-> Field(i, 1), overview |-> Field(i, 2),
                      vote_average |-> Field(i, 3), vote_count |-> Field(i, 4),
                      poster_path |-> Field(i, 5), popularity |-> Field(i, 6),
                      release_date |-> Field(i, 7)]]]]

YelpFusion(n) ==
  [body |-> [businesses |->
     [i \in 1..n |-> [name |-> Field(i, 1), image_url |-> Field(i, 2),
                      price |-> Field(i, 3), rating |-> Field(i, 4),
                      url |-> Field(i, 5)]]]]

\* ---------------------------------------------------------------- the store
\* schema.sql: the only unique columns are the SERIAL primary keys.
UniqueColumns == [t \in TableNames |-> {"id"}]

\* The column types: latitude and longitude are NUMERIC(10, 7).
Stored(tableName, row) ==
  IF tableName = "locations"
  THEN [row EXCEPT !.latitude = Numeric10_7(@), !.longitude = Numeric10_7(@)]
  ELSE row

\* SELECT * ... WHERE column = value, in the order the rows were inserted
Select(tableName, column, value) ==
  SelectSeq(tables[tableName], LAMBDA row : row[column] = value)

\* FOREIGN KEY (location_id) REFERENCES locations (id)
ForeignKeyHolds(tableName, row) ==
  tableName = "locations"
  \/ \E i \in 1..Len(tables["locations"]) :
       tables["locations"][i].id = row.location_id

\* ON CONFLICT: a row with the same value in a unique column exists
Conflict(tableName, row) ==
  \E i \in 1..Len(tables[tableName]) :
    \E c \in UniqueColumns[tableName] : tables[tableName][i][c] = row[c]

\* ------------------------------------------------------------ the requests
Idle == [pc |-> "idle", id |-> 0]

\* A request and the log of what its handler did: the responses sent, the
\* provider calls made and how the call ended, the provider's answer, the
\* INSERTs and DELETEs issued, the statements that failed.  `after` is the
\* request that had completed last when this one arrived, and `solo` tells
\* that no other request was being handled then.
NewRequest(id, endpoint, data) ==
  [id |-> id, endpoint |-> endpoint, data |-> data, pc |-> "lookup",
   after |-> last.id, solo |-> \A s \in Slots : reqs[s].pc = "idle",
   responses |-> <<>>, calls |-> 0, hit |-> FALSE,
   fetch |-> "none", payload |-> <<>>, inserts |-> 0, deletes |-> 0,
   rejected |-> 0]

\* response.send(body)
send(req, body) ==
  [req EXCEPT !.responses = Append(@, [status |-> 200, body |-> body])]

\* handleError(err, res): answers 500 only when it is given the response
handleError(req, res) ==
  IF res
  THEN [req EXCEPT !.responses =
          Append(@, [status |-> 500, body |-> "Sorry, something went wrong"])]
  ELSE req

\* The slot of the request a statement belongs to
SlotOf(id) == CHOOSE s \in Slots : reqs[s].id = id

InFlight(id) == \E s \in Slots : reqs[s].id = id

\* The handler has nothing more to do: its log becomes `last`.
Finish(s, req) ==
  /\ reqs' = [reqs EXCEPT ![s] = Idle]
  /\ last' = [req EXCEPT !.pc = "done"]

\* A dropped promise rejects: nothing runs; the log counts it.
Rejected(id) ==
  IF InFlight(id)
  THEN /\ reqs' = [reqs EXCEPT ![SlotOf(id)].rejected = @ + 1]
       /\ last' = last
  ELSE /\ reqs' = reqs
       /\ last' = IF last.id = id THEN [last EXCEPT !.rejected = @ + 1]
                  ELSE last

\* A database the program has run against before: the locations table holds
\* the row of an earlier resolution of "q1".
SeedLocation ==
  [id |-> 1, search_query |-> "q1", formatted_query |-> "short",
   latitude |-> 1248000000, longitude |-> 0 - 1221900000]

Init ==
  /\ tables = [t \in TableNames |->
                 IF t = "locations" THEN <<SeedLocation>> ELSE <<>>]
  /\ serial = [t \in TableNames |-> IF t = "locations" THEN 2 ELSE 1]
  /\ queue = <<>>
  /\ now = 0
  /\ reqs = [s \in Slots |-> Idle]
  /\ last = Idle
  /\ issued = 0
  /\ faults = 0

\* --------------------------------------------------------------- handlers
\* The handler's first step: it issues the SELECT of its lookup.
Receive(endpoint, data, sql) ==
  /\ issued < MaxReq
  /\ Len(queue) <= MaxBacklog
  /\ \E s \in Slots :
       /\ reqs[s] = Idle
       /\ \A s2 \in Slots : s2 < s => reqs[s2] # Idle
       /\ reqs' = [reqs EXCEPT ![s] = NewRequest(issued + 1, endpoint, data)]
  /\ issued' = issued + 1
  /\ queue' = Append(queue, sql)
  /\ UNCHANGED <<tables, serial, now, last, faults>>

getLocation ==
  \E q \in Queries : Receive("location", q, lookupLocationSQL(q, issued + 1))

getWeather ==
  \E id \in LocationIds :
    Receive("weather", id, lookupSQL("weathers", id, issued + 1))

getEvents ==
  \E id \in LocationIds :
    Receive("events", id, lookupSQL("events", id, issued + 1))

getMovies ==
  \E id \in LocationIds :
    Receive("movies", id, lookupSQL("movies", id, issued + 1))

getYelp ==
  \E id \in LocationIds :
    Receive("yelp", id, lookupSQL("yelp", id, issued + 1))

\* A weather request received after the other requests of the run have
\* completed and their writes have run.
getWeatherAfter ==
  /\ issued >= MaxReq
  /\ issued < MaxReq + MaxAfter
  /\ queue = <<>>
  /\ \A s \in Slots : reqs[s] = Idle
  /\ \E id \in LocationIds :
       /\ reqs' = [reqs EXCEPT ![1] = NewRequest(issued + 1, "weather", id)]
       /\ queue' = <<lookupSQL("weathers", id, issued + 1)>>
  /\ issued' = issued + 1
  /\ UNCHANGED <<tables, serial, now, last, faults>>

\* --------------------------------------------- lookup: the SELECT's callback
HitWhenSeveral(result) == Len(result) > 1

HitAlways(result) == Len(result) >= 0

\* lookup's test: result.rowCount > 0
Hit(result) == Len(result) > 0

\* lookup's .then with rowCount > 0, for events, movies and yelp:
\* cacheHit sends result.rows.
cacheHit ==
  /\ queue # <<>>
  /\ LET q == Head(queue)
         s == SlotOf(q.req)
         result == Select(q.tableName, q.column, q.value)
     IN /\ q.op = "select"
        /\ q.tableName \in ListEndpoints
        /\ Hit(result)
        /\ Finish(s, [send(reqs[s], result) EXCEPT !.hit = TRUE])
  /\ queue' = Tail(queue)
  /\ UNCHANGED <<tables, serial, now, issued, faults>>

StaleAtThreshold(ageOfResults) == ageOfResults >= timeouts.weathers

\* getWeather.cacheHit's test: ageOfResults > timeouts.weathers
Stale(ageOfResults) == ageOfResults > timeouts.weathers

\* getWeather.cacheHit with results that are not stale
weatherCacheHitFresh ==
  /\ queue # <<>>
  /\ LET q == Head(queue)
         s == SlotOf(q.req)
         result == Select(q.tableName, q.column, q.value)
     IN /\ q.op = "select"
        /\ q.tableName = "weathers"
        /\ Hit(result)
        /\ ~Stale(now - result[1].created_at)
        /\ Finish(s, [send(reqs[s], result) EXCEPT !.hit = TRUE])
  /\ queue' = Tail(queue)
  /\ UNCHANGED <<tables, serial, now, issued, faults>>

\* (the stale branch without its else: the stored rows are sent as well)
weatherCacheHitStaleSending ==
  /\ queue # <<>>
  /\ LET q == Head(queue)
         s == SlotOf(q.req)
         result == Select(q.tableName, q.column, q.value)
     IN /\ q.op = "select"
        /\ q.tableName = "weathers"
        /\ Hit(result)
        /\ Stale(now - result[1].created_at)
        /\ reqs' = [reqs EXCEPT ![s] =
                      [send(@, result) EXCEPT !.pc = "fetch", !.hit = TRUE,
                                             !.deletes = @ + 1,
                                             !.calls = @ + 1]]
        /\ queue' = Append(Tail(queue),
                           deleteByLocationId("weathers", q.value, q.req))
  /\ UNCHANGED <<tables, serial, now, last, issued, faults>>

\* getWeather.cacheHit with stale results: the DELETE is
\* issued (its promise is dropped) and cacheMiss starts the provider call.
weatherCacheHitStale ==
  /\ queue # <<>>
  /\ LET q == Head(queue)
         s == SlotOf(q.req)
         result == Select(q.tableName, q.column, q.value)
     IN /\ q.op = "select"
        /\ q.tableName = "weathers"
        /\ Hit(result)
        /\ Stale(now - result[1].created_at)
        /\ reqs' = [reqs EXCEPT ![s] =
                      [@ EXCEPT !.pc = "fetch", !.hit = TRUE,
                                !.deletes = @ + 1, !.calls = @ + 1]]
        /\ queue' = Append(Tail(queue),
                           deleteByLocationId("weathers", q.value, q.req))
  /\ UNCHANGED <<tables, serial, now, last, issued, faults>>

\* lookup's .then with rowCount = 0: cacheMiss starts the provider call.
cacheMiss ==
  /\ queue # <<>>
  /\ LET q == Head(queue)
         s == SlotOf(q.req)
         result == Select(q.tableName, q.column, q.value)
     IN /\ q.op = "select"
        /\ q.tableName # "locations"
        /\ ~Hit(result)
        /\ reqs' = [reqs EXCEPT ![s] =
                      [@ EXCEPT !.pc = "fetch", !.calls = @ + 1]]
  /\ queue' = Tail(queue)
  /\ UNCHANGED <<tables, serial, now, last, issued, faults>>

\* lookup's .catch: the SELECT failed; handleError(error) gets no response.
lookupCatch ==
  /\ queue # <<>>
  /\ faults < MaxFaults
  /\ LET q == Head(queue)
         s == SlotOf(q.req)
     IN /\ q.op = "select"
        /\ q.tableName # "locations"
        /\ Finish(s, handleError(reqs[s], FALSE))
  /\ queue' = Tail(queue)
  /\ faults' = faults + 1
  /\ UNCHANGED <<tables, serial, now, issued>>

\* ------------------------------------- the provider's answer (superagent)
\* The objects the .then of a cache miss builds from the payload.
Summaries(endpoint, res, t) ==
  CASE endpoint = "weather" ->
         map(LAMBDA day : Weather(day, t), res.body.daily.data)
    [] endpoint = "events" -> map(Event, res.body.events)
    [] endpoint = "movies" -> map(Movie, res.body.results)
    [] endpoint = "yelp" -> map(Yelp, res.body.businesses)

\* The INSERTs the save() calls inside the map issue, one per object.
Saves(endpoint, objs, location_id, r) ==
  CASE endpoint = "weather" ->
         map(LAMBDA o : WeatherSave(o, location_id, r), objs)
    [] endpoint = "events" -> map(LAMBDA o : EventSave(o, location_id, r), objs)
    [] endpoint = "movies" -> map(LAMBDA o : MovieSave(o, location_id, r), objs)
    [] endpoint = "yelp" -> map(LAMBDA o : YelpSave(o, location_id, r), objs)

SentThree(endpoint, objs) ==
  IF endpoint = "weather" THEN objs ELSE slice(objs, 0, 3)

\* What is sent: .slice(0, 2) of the list, except for weather.
Sent(endpoint, objs) ==
  IF endpoint = "weather" THEN objs ELSE slice(objs, 0, 2)

Payload(endpoint, n) ==
  CASE endpoint = "weather" -> DarkSky(n)
    [] endpoint = "events" -> Eventbrite(n)
    [] endpoint = "movies" -> Tmdb(n)
    [] endpoint = "yelp" -> YelpFusion(n)

\* superagent's .then of weather, events, movies and yelp
fetchThen ==
  \E s \in Slots, n \in 0..MaxItems :
    /\ reqs[s].pc = "fetch"
    /\ reqs[s].endpoint # "location"
    /\ Len(queue) <= MaxBacklog
    /\ LET e == reqs[s].endpoint
           res == Payload(e, n)
           objs == Summaries(e, res, now)
       IN /\ Finish(s, [send(reqs[s], Sent(e, objs)) EXCEPT
                          !.fetch = "ok", !.payload = res,
                          !.inserts = @ + Len(objs)])
          /\ queue' = queue \o Saves(e, objs, reqs[s].data, reqs[s].id)
    /\ UNCHANGED <<tables, serial, now, issued, faults>>

\* superagent's .catch of weather, events, movies and yelp (the call failed,
\* or the payload lacks the list): handleError(error, response).
fetchCatch ==
  \E s \in Slots :
    /\ reqs[s].pc = "fetch"
    /\ reqs[s].endpoint # "location"
    /\ Len(queue) <= MaxBacklog
    /\ Finish(s, [handleError(reqs[s], TRUE) EXCEPT !.fetch = "failed"])
    /\ UNCHANGED <<tables, serial, queue, now, issued, faults>>

\* ------------------------------------------------ the fire-and-forget writes
\* An INSERT of a save() runs.  The promise is dropped: nothing follows.
saveDone ==
  /\ queue # <<>>
  /\ LET q == Head(queue)
     IN /\ q.op = "insert"
        /\ q.tableName # "locations"
        /\ ForeignKeyHolds(q.tableName, q.row)
        /\ tables' = [tables EXCEPT ![q.tableName] =
                        Append(@, WithId(Stored(q.tableName, q.row),
                                         serial[q.tableName]))]
        /\ serial' = [serial EXCEPT ![q.tableName] = @ + 1]
  /\ queue' = Tail(queue)
  /\ UNCHANGED <<now, reqs, last, issued, faults>>

\* The INSERT fails: there is no such location, or the statement fails for
\* another reason (a value too long for its column, the connection lost).
saveReject ==
  /\ queue # <<>>
  /\ LET q == Head(queue)
     IN /\ q.op = "insert"
        /\ q.tableName # "locations"
        /\ IF ForeignKeyHolds(q.tableName, q.row)
           THEN faults < MaxFaults /\ faults' = faults + 1
           ELSE faults' = faults
        /\ Rejected(q.req)
  /\ queue' = Tail(queue)
  /\ UNCHANGED <<tables, serial, now, issued>>

\* The DELETE of deleteByLocationId runs.
deleteDone ==
  /\ queue # <<>>
  /\ LET q == Head(queue)
     IN /\ q.op = "delete"
        /\ tables' = [tables EXCEPT ![q.tableName] =
                        SelectSeq(@, LAMBDA row : row[q.column] # q.value)]
  /\ queue' = Tail(queue)
  /\ UNCHANGED <<serial, now, reqs, last, issued, faults>>

deleteReject ==
  /\ queue # <<>>
  /\ faults < MaxFaults
  /\ LET q == Head(queue)
     IN /\ q.op = "delete"
        /\ Rejected(q.req)
  /\ queue' = Tail(queue)
  /\ faults' = faults + 1
  /\ UNCHANGED <<tables, serial, now, issued>>

\* ------------------------------------------------------------ the location
\* Location.lookupLocation's .then with rowCount > 0: cacheHit sends rows[0].
locationCacheHit ==
  /\ queue # <<>>
  /\ LET q == Head(queue)
         s == SlotOf(q.req)
         result == Select(q.tableName, q.column, q.value)
     IN /\ q.op = "select"
        /\ q.tableName = "locations"
        /\ Len(result) > 0
        /\ Finish(s, [send(reqs[s], result[1]) EXCEPT !.hit = TRUE])
  /\ queue' = Tail(queue)
  /\ UNCHANGED <<tables, serial, now, issued, faults>>

\* ... with rowCount = 0: cacheMiss calls the geocoder.
locationCacheMiss ==
  /\ queue # <<>>
  /\ LET q == Head(queue)
         s == SlotOf(q.req)
         result == Select(q.tableName, q.column, q.value)
     IN /\ q.op = "select"
        /\ q.tableName = "locations"
        /\ Len(result) = 0
        /\ reqs' = [reqs EXCEPT ![s] =
                      [@ EXCEPT !.pc = "fetch", !.calls = @ + 1]]
  /\ queue' = Tail(queue)
  /\ UNCHANGED <<tables, serial, now, last, issued, faults>>

\* Location.lookupLocation's .catch(console.error): the SELECT failed.
lookupLocationCatch ==
  /\ queue # <<>>
  /\ faults < MaxFaults
  /\ LET q == Head(queue)
         s == SlotOf(q.req)
     IN /\ q.op = "select"
        /\ q.tableName = "locations"
        /\ Finish(s, reqs[s])
  /\ queue' = Tail(queue)
  /\ faults' = faults + 1
  /\ UNCHANGED <<tables, serial, now, issued>>

\* getLocation.cacheMiss, superagent's .then: new Location(...) and save().
\* With no result, results[0] is undefined and the constructor throws: the
\* .catch runs handleError(error), without the response.
geocodeThen ==
  \E s \in Slots, kind \in GeocodeKinds :
    /\ reqs[s].pc = "fetch"
    /\ reqs[s].endpoint = "location"
    /\ Len(queue) <= MaxBacklog
    /\ LET res == Geocode(kind)
       IN IF Len(res.body.results) = 0
          THEN /\ Finish(s, [handleError(reqs[s], FALSE) EXCEPT
                               !.fetch = "ok", !.payload = res])
               /\ queue' = queue
          ELSE /\ reqs' = [reqs EXCEPT ![s] =
                             [@ EXCEPT !.pc = "save", !.fetch = "ok",
                                       !.payload = res, !.inserts = @ + 1]]
               /\ last' = last
               /\ queue' = Append(queue,
                             LocationSave(Location(reqs[s].data, res),
                                          reqs[s].id))
    /\ UNCHANGED <<tables, serial, now, issued, faults>>

\* getLocation.cacheMiss, superagent's .catch: handleError(error), without
\* the response.
geocodeCatch ==
  \E s \in Slots :
    /\ reqs[s].pc = "fetch"
    /\ reqs[s].endpoint = "location"
    /\ Len(queue) <= MaxBacklog
    /\ Finish(s, [handleError(reqs[s], FALSE) EXCEPT !.fetch = "failed"])
    /\ UNCHANGED <<tables, serial, queue, now, issued, faults>>

\* Location.prototype.save's .then: INSERT ... ON CONFLICT DO NOTHING
\* RETURNING id; this.id = result.rows[0].id; then response.send(location).
\* On a conflict no row is returned, rows[0].id throws and nothing is sent.
locationSaveThen ==
  /\ queue # <<>>
  /\ LET q == Head(queue)
         s == SlotOf(q.req)
         id == serial["locations"]
         row == WithId(Stored("locations", q.row), id)
         location == [f \in DOMAIN q.row \cup {"tableName", "id"} |->
                        CASE f = "tableName" -> "locations"
                          [] f = "id" -> id
                          [] OTHER -> q.row[f]]
     IN /\ q.op = "insert"
        /\ q.tableName = "locations"
        /\ serial' = [serial EXCEPT !["locations"] = @ + 1]
        /\ IF Conflict("locations", row)
           THEN /\ tables' = tables
                /\ Finish(s, reqs[s])
           ELSE /\ tables' = [tables EXCEPT !["locations"] = Append(@, row)]
                /\ Finish(s, send(reqs[s], location))
  /\ queue' = Tail(queue)
  /\ UNCHANGED <<now, issued, faults>>

\* The INSERT fails: save()'s promise rejects, and the inner chain has no
\* .catch, so nothing is sent.
locationSaveReject ==
  /\ queue # <<>>
  /\ faults < MaxFaults
  /\ LET q == Head(queue)
         s == SlotOf(q.req)
     IN /\ q.op = "insert"
        /\ q.tableName = "locations"
        /\ Finish(s, [reqs[s] EXCEPT !.rejected = @ + 1])
  /\ queue' = Tail(queue)
  /\ faults' = faults + 1
  /\ UNCHANGED <<tables, serial, now, issued>>

\* ---------------------------------------------------------------- the clock
\* Date.now() moves on.
Tick ==
  /\ Len(queue) <= MaxBacklog
  /\ \E t \in Clock : t > now /\ now' = t
  /\ UNCHANGED <<tables, serial, queue, reqs, last, issued, faults>>

Next ==
  \/ getLocation
  \/ getWeather
  \/ getEvents
  \/ getMovies
  \/ getYelp
  \/ cacheHit
  \/ weatherCacheHitFresh
  \/ weatherCacheHitStale
  \/ cacheMiss
  \/ lookupCatch
  \/ fetchThen
  \/ fetchCatch
  \/ saveDone
  \/ saveReject
  \/ deleteDone
  \/ deleteReject
  \/ locationCacheHit
  \/ locationCacheMiss
  \/ lookupLocationCatch
  \/ geocodeThen
  \/ geocodeCatch
  \/ locationSaveThen
  \/ locationSaveReject
  \/ Tick

Spec == Init /\ [][Next]_vars

\* A database that has served requests before, all at time 0: the locations
\* table holds the rows of "q1" and of a query not asked again, each of the two
\* locations has a weather row, location 1 an event and location 2 a movie.
SeedLocationOther ==
  [id |-> 2, search_query |-> "q0", formatted_query |-> "long",
   latitude |-> Numeric10_7(1247987815),
   longitude |-> Numeric10_7(0 - 1221934564)]

\* The rows the requests of an endpoint for the locations `ids`, each fetching
\* one item, have stored.
SeedRows(endpoint, ids) ==
  [i \in 1..Len(ids) |->
     WithId(Saves(endpoint, Summaries(endpoint, Payload(endpoint, 1), 0),
                  ids[i], 0)[1].row, i)]

SeedTables ==
  [t \in TableNames |->
     CASE t = "locations" -> <<SeedLocation, SeedLocationOther>>
       [] t = "weathers" -> SeedRows("weather", <<1, 2>>)
       [] t = "events" -> SeedRows("events", <<1>>)
       [] t = "movies" -> SeedRows("movies", <<2>>)
       [] t = "yelp" -> <<>>]

InitSeeded ==
  /\ tables = SeedTables
  /\ serial = [t \in TableNames |-> Len(SeedTables[t]) + 1]
  /\ queue = <<>>
  /\ now = 0
  /\ reqs = [s \in Slots |-> Idle]
  /\ last = Idle
  /\ issued = 0
  /\ faults = 0

SpecSeeded == InitSeeded /\ [][Next]_vars

\* The handlers of one resource share nothing with the others but the
\* connection and the locations their rows point to: the runs in which only
\* /location, only /weather, or only /events, /movies and /yelp are requested.
NextLocation ==
  \/ getLocation
  \/ locationCacheHit
  \/ locationCacheMiss
  \/ lookupLocationCatch
  \/ geocodeThen
  \/ geocodeCatch
  \/ locationSaveThen
  \/ locationSaveReject

SpecLocation == Init /\ [][NextLocation]_vars

NextWeather ==
  \/ getWeather
  \/ weatherCacheHitFresh
  \/ weatherCacheHitStale
  \/ cacheMiss
  \/ lookupCatch
  \/ fetchThen
  \/ fetchCatch
  \/ saveDone
  \/ saveReject
  \/ deleteDone
  \/ deleteReject
  \/ Tick

SpecWeather == Init /\ [][NextWeather]_vars

\* ... followed by further weather requests, one at a time.
NextWeatherAfter ==
  \/ NextWeather
  \/ getWeatherAfter

SpecWeatherAfter == Init /\ [][NextWeatherAfter]_vars

NextList ==
  \/ getEvents
  \/ getMovies
  \/ getYelp
  \/ cacheHit
  \/ cacheMiss
  \/ lookupCatch
  \/ fetchThen
  \/ fetchCatch
  \/ saveDone
  \/ saveReject

SpecList == Init /\ [][NextList]_vars

(***************************************************************************)
(* The claims.                                                             *)
(***************************************************************************)
\* The rows a table holds for a location, in insertion order
RowsOf(t, location_id) ==
  SelectSeq(tables[t], LAMBDA row : row.location_id = location_id)

\* The step in which the callback of the lookup of the request in slot s runs
LookupRuns(s) == reqs[s].pc = "lookup" /\ reqs'[s] # reqs[s]

\* ... with the SELECT having succeeded
LookupReturns(s) == LookupRuns(s) /\ faults' = faults

Ok(body) == <<[status |-> 200, body |-> body]>>

\* C1: for events, movies and yelp, a request whose lookup runs while the
\* table holds a row for its location calls no provider, issues no INSERT and
\* no DELETE and leaves the tables as they are, and what it answers is exactly
\* the rows stored for that location (it answers nothing only when the SELECT
\* itself fails).
C1_CachedListIsServed ==
  [][\A s \in Slots :
       (/\ LookupRuns(s)
        /\ reqs[s].endpoint \in ListEndpoints
        /\ RowsOf(reqs[s].endpoint, reqs[s].data) # <<>>)
       => /\ last'.id = reqs[s].id
          /\ last'.calls = 0 /\ last'.inserts = 0 /\ last'.deletes = 0
          /\ tables' = tables
          /\ queue' = Tail(queue)
          /\ last'.responses =
               IF faults' = faults
               THEN Ok(RowsOf(reqs[s].endpoint, reqs[s].data))
               ELSE <<>>]_vars

\* A request of a list endpoint was answered from the rows an earlier request
\* stored.
C1_Witness ==
  /\ last.pc = "done"
  /\ last.endpoint \in ListEndpoints
  /\ last.hit
  /\ last.calls = 0
  /\ last.responses = Ok(RowsOf(last.endpoint, last.data))
  /\ RowsOf(last.endpoint, last.data) # <<>>

\* C2: when the lookup of a weather request returns rows of which one was
\* created more than 15000 ms ago, the handler issues the DELETE of the
\* location's weather rows and makes one provider call; a request never makes
\* a second call; and the DELETE, when it runs, removes every weather row of
\* that location.
C2_StaleWeatherIsRefetched ==
  /\ [][\A s \in Slots :
          (/\ LookupReturns(s)
           /\ reqs[s].endpoint = "weather"
           /\ \E i \in 1..Len(RowsOf("weathers", reqs[s].data)) :
                now - RowsOf("weathers", reqs[s].data)[i].created_at > 15000)
          => /\ queue' = Append(Tail(queue),
                           [op |-> "delete", tableName |-> "weathers",
                            column |-> "location_id",
                            value |-> reqs[s].data, req |-> reqs[s].id])
             /\ reqs'[s].pc = "fetch"
             /\ reqs'[s].calls = 1
             /\ tables' = tables]_vars
  /\ [][(/\ queue # <<>>
         /\ Head(queue).op = "delete"
         /\ queue' = Tail(queue)
         /\ faults' = faults)
        => tables' = [tables EXCEPT !["weathers"] =
                        SelectSeq(@, LAMBDA row :
                                       row.location_id # Head(queue).value)]]_vars
  /\ [](\A s \in Slots : reqs[s].pc # "idle" => reqs[s].calls <= 1)
  /\ [](last.pc = "done" => last.calls <= 1)

\* A weather request found stale rows, issued the DELETE, called the provider
\* once and answered with the new forecast.
C2_Witness ==
  /\ last.pc = "done"
  /\ last.endpoint = "weather"
  /\ last.hit
  /\ last.deletes = 1
  /\ last.calls = 1
  /\ last.fetch = "ok"
  /\ Len(last.responses) = 1

\* C3: when the lookup of a weather request returns rows none of which was
\* created more than 15000 ms ago (15000 included), the handler issues no
\* DELETE and no INSERT, calls no provider, changes no table and answers the
\* stored rows as they are.
C3_FreshWeatherIsServed ==
  [][\A s \in Slots :
       (/\ LookupReturns(s)
        /\ reqs[s].endpoint = "weather"
        /\ RowsOf("weathers", reqs[s].data) # <<>>
        /\ \A i \in 1..Len(RowsOf("weathers", reqs[s].data)) :
             now - RowsOf("weathers", reqs[s].data)[i].created_at <= 15000)
       => /\ last'.id = reqs[s].id
          /\ last'.calls = 0 /\ last'.inserts = 0 /\ last'.deletes = 0
          /\ tables' = tables
          /\ queue' = Tail(queue)
          /\ last'.responses = Ok(RowsOf("weathers", reqs[s].data))]_vars

\* A weather request was answered from rows exactly 15000 ms old.
C3_Witness ==
  /\ last.pc = "done"
  /\ last.endpoint = "weather"
  /\ last.hit
  /\ last.deletes = 0
  /\ last.calls = 0
  /\ last.responses = Ok(RowsOf("weathers", last.data))
  /\ RowsOf("weathers", last.data) # <<>>
  /\ now - RowsOf("weathers", last.data)[1].created_at = 15000

\* C4: nothing stands between two requests and the race: the lookup of a list
\* request that finds no row for its location always goes on to the provider
\* call, whatever the other requests are doing, and an INSERT of a fetched
\* row whose location exists always adds the row, whatever the table holds.
C4_NothingPreventsTheRace ==
  /\ [][\A s \in Slots :
          (/\ LookupReturns(s)
           /\ reqs[s].endpoint \in ListEndpoints
           /\ RowsOf(reqs[s].endpoint, reqs[s].data) = <<>>)
          => /\ reqs'[s].pc = "fetch"
             /\ reqs'[s].calls = 1]_vars
  /\ [][(/\ queue # <<>>
         /\ Head(queue).op = "insert"
         /\ Head(queue).tableName \in ListEndpoints
         /\ \E i \in 1..Len(tables["locations"]) :
              tables["locations"][i].id = Head(queue).row.location_id
         /\ queue' = Tail(queue)
         /\ faults' = faults)
        => LET t == Head(queue).tableName
           IN /\ Len(tables'[t]) = Len(tables[t]) + 1
              /\ SubSeq(tables'[t], 1, Len(tables[t])) = tables[t]
              /\ \A f \in DOMAIN Head(queue).row :
                   tables'[t][Len(tables'[t])][f] = Head(queue).row[f]]_vars

\* Two requests for the same list resource and location both missed, both
\* called the provider and both inserted: the table holds the same item twice
\* for that location.
C4_Witness ==
  \E t \in ListEndpoints :
    \E i, j \in 1..Len(tables[t]) :
      /\ i < j
      /\ tables[t][i].id # tables[t][j].id
      /\ \A f \in DOMAIN tables[t][i] \ {"id"} : tables[t][i][f] = tables[t][j][f]

\* C5 (as claimed): when a location request for a query that was not stored
\* has been answered, a request with the same query made after that is a
\* cache hit, calls no provider, and is answered with the same
\* formatted_query, latitude, longitude and id (no statement of the run having
\* failed in the store).
C5_SecondLookupSame ==
  [][(/\ faults' = 0
      /\ last'.id # last.id
      /\ last.pc = "done"
      /\ last.endpoint = "location"
      /\ ~last.hit
      /\ Len(last.responses) = 1
      /\ last.responses[1].status = 200
      /\ last'.endpoint = "location"
      /\ last'.data = last.data
      /\ last'.after = last.id)
     => /\ last'.hit
        /\ last'.calls = 0
        /\ Len(last'.responses) = 1
        /\ last'.responses[1].status = 200
        /\ \A f \in {"formatted_query", "latitude", "longitude", "id"} :
             last'.responses[1].body[f] = last.responses[1].body[f]]_vars

\* C6 (as claimed): a request whose provider call failed was answered once,
\* with the generic 500, and issued no INSERT.
C6_ProviderFailureAnswered ==
  (last.pc = "done" /\ last.fetch = "failed")
  => /\ last.responses =
          <<[status |-> 500, body |-> "Sorry, something went wrong"]>>
     /\ last.inserts = 0

\* The list of the provider's answer, and the mapped form of one of its items
ItemsOf(endpoint, res) ==
  CASE endpoint = "events" -> res.body.events
    [] endpoint = "movies" -> res.body.results
    [] endpoint = "yelp" -> res.body.businesses

Mapped(endpoint, item) ==
  CASE endpoint = "events" -> Event(item)
    [] endpoint = "movies" -> Movie(item)
    [] endpoint = "yelp" -> Yelp(item)

\* C7: the answer to a cache miss of events, movies or yelp holds min(2, n)
\* items, the mapped forms of the first items of the provider's n, in the
\* provider's order.
C7_FirstTwoMapped ==
  (last.pc = "done" /\ last.endpoint \in ListEndpoints /\ last.fetch = "ok")
  => LET items == ItemsOf(last.endpoint, last.payload)
         n == Len(items)
     IN /\ Len(last.responses) = 1
        /\ last.responses[1].status = 200
        /\ Len(last.responses[1].body) = (IF n < 2 THEN n ELSE 2)
        /\ \A i \in 1..Len(last.responses[1].body) :
             last.responses[1].body[i] = Mapped(last.endpoint, items[i])

\* The provider returned more than 2 items and 2 were sent.
C7_Witness ==
  /\ last.pc = "done"
  /\ last.endpoint \in ListEndpoints
  /\ last.fetch = "ok"
  /\ Len(ItemsOf(last.endpoint, last.payload)) > 2
  /\ Len(last.responses[1].body) = 2

\* C8 (as claimed): after one request, hence at most one fetch, a list table
\* holds at most 2 rows for a location.
C8_AtMostTwoStored ==
  issued = 1 =>
    \A t \in ListEndpoints, id \in LocationIds : Len(RowsOf(t, id)) <= 2

\* C9 (as claimed): a request whose provider call succeeded and one of whose
\* writes then failed was answered with the data.
C9_WriteFailureStillAnswered ==
  (last.pc = "done" /\ last.fetch = "ok" /\ last.rejected > 0)
  => /\ Len(last.responses) = 1
     /\ last.responses[1].status = 200

\* C10 (as claimed): the locations table holds at most one row for a
\* search_query.
C10_OneRowPerQuery ==
  \A q \in Queries :
    Len(SelectSeq(tables["locations"],
                  LAMBDA row : row.search_query = q)) <= 1

\* A row without the id the table gave it
NoId(row) == [f \in DOMAIN row \ {"id"} |-> row[f]]

\* A statement of the request is still waiting on the connection
Pending(id) == \E i \in 1..Len(queue) : queue[i].req = id

\* The rows the INSERTs of a weather request carry, read off its response
\* (the weather response holds every object of the fetch)
RowsOfFetch(req) ==
  [i \in 1..Len(req.responses[1].body) |->
     WeatherSave(req.responses[1].body[i], req.data, req.id).row]

\* The request in `last` was a stale weather refresh whose DELETE and INSERTs
\* have all run and succeeded, with no other request handled from its arrival
\* until now.
RefreshCompleted ==
  /\ last.pc = "done"
  /\ last.endpoint = "weather"
  /\ last.deletes = 1
  /\ last.fetch = "ok"
  /\ last.rejected = 0
  /\ ~Pending(last.id)
  /\ last.solo
  /\ issued = last.id

C12_DeletedOnlyWhenNewestStale ==
  [][\A id \in LocationIds :
       Len(SelectSeq(tables'["weathers"],
                     LAMBDA row : row.location_id = id))
         < Len(RowsOf("weathers", id))
       => \A i \in 1..Len(RowsOf("weathers", id)) :
            now - RowsOf("weathers", id)[i].created_at > 15000]_vars

\* The request in `last` was a location cache miss that was answered.
LocationMissAnswered ==
  /\ last.pc = "done"
  /\ last.endpoint = "location"
  /\ ~last.hit
  /\ last.responses # <<>>

\* C13: a location request that missed is not answered while its INSERT has
\* not run, and its answer carries the request's search_query, the
\* formatted_address, lat and lng of the geocoder's first result, and the id
\* of the row the INSERT stored for that search_query.
C13_MissAnswersStoredLocation ==
  /\ \A s \in Slots :
       (reqs[s].pc # "idle" /\ reqs[s].endpoint = "location")
       => reqs[s].responses = <<>>
  /\ LocationMissAnswered =>
       LET body == last.responses[1].body
           first == last.payload.body.results[1]
       IN /\ Len(last.responses) = 1
          /\ last.responses[1].status = 200
          /\ last.fetch = "ok"
          /\ ~Pending(last.id)
          /\ body.search_query = last.data
          /\ body.formatted_query = first.formatted_address
          /\ body.latitude = first.geometry.location.lat
          /\ body.longitude = first.geometry.location.lng
          /\ \E i \in 1..Len(tables["locations"]) :
               /\ tables["locations"][i].id = body.id
               /\ tables["locations"][i].search_query = last.data
               /\ tables["locations"][i].formatted_query = body.formatted_query

\* A location request that missed was answered from a geocoder payload of
\* several results.
C13_Witness ==
  /\ LocationMissAnswered
  /\ Len(last.payload.body.results) > 1
  /\ last.responses[1].body.formatted_query = "first"
  /\ last.responses[1].body.id > 1

\* C14: in every step each of the tables locations, events, movies and yelp
\* keeps the rows it holds, unchanged and in place (it can only gain rows at
\* its end), and every DELETE the program issues is on the weathers table.
C14_OnlyWeatherShrinks ==
  /\ [][\A t \in TableNames \ {"weathers"} :
          /\ Len(tables'[t]) >= Len(tables[t])
          /\ SubSeq(tables'[t], 1, Len(tables[t])) = tables[t]]_vars
  /\ [](\A i \in 1..Len(queue) :
          queue[i].op = "delete" => queue[i].tableName = "weathers")

\* The weather row of location 1 was deleted and not replaced, the yelp table
\* has gained rows, and the stored locations, events and movies are as they
\* were.
C14_Witness ==
  /\ tables # SeedTables
  /\ RowsOf("weathers", 1) = <<>>
  /\ tables["yelp"] # <<>>
  /\ tables["locations"] = SeedTables["locations"]
  /\ tables["events"] = SeedTables["events"]
  /\ tables["movies"] = SeedTables["movies"]

\* C15 (as claimed): a request whose handler has run to its end (no callback
\* of it remains, so nothing can answer it later) has received a response;
\* stated for the runs in which no statement failed in the store, where the
\* outcomes left are those of the provider call.
C15_EveryRequestAnswered ==
  (last.pc = "done" /\ faults = 0) => Len(last.responses) >= 1

\* C16 (as claimed): a request whose provider call failed has left the rows
\* as they were; in particular, when its lookup had found weather rows for its
\* location and no other request was handled from its arrival until now, the
\* table still holds weather rows for that location.
C16_FailedFetchKeepsRows ==
  (/\ last.pc = "done"
   /\ last.endpoint = "weather"
   /\ last.fetch = "failed"
   /\ last.hit
   /\ last.solo
   /\ issued = last.id)
  => RowsOf("weathers", last.data) # <<>>

\* C17 (as claimed): when a request of events, movies or yelp missed, fetched
\* and stored, and the request completing next is a request for the same
\* resource and location that arrived after the first had completed, with no
\* other being handled, and is a cache hit, then the hit returns as many items
\* as the miss returned, each with the field values of the miss's item (no
\* statement of the run having failed in the store).
C17_HitReturnsWhatMissReturned ==
  [][(/\ faults' = 0
      /\ last'.id # last.id
      /\ last.pc = "done"
      /\ last.endpoint \in ListEndpoints
      /\ last.fetch = "ok"
      /\ last'.endpoint = last.endpoint
      /\ last'.data = last.data
      /\ last'.after = last.id
      /\ last'.solo
      /\ last'.hit)
     => LET miss == last.responses[1].body
            hit == last'.responses[1].body
        IN /\ Len(hit) = Len(miss)
           /\ \A i \in 1..Len(miss) :
                \A f \in DOMAIN miss[i] \ {"tableName"} :
                  hit[i][f] = miss[i][f]]_vars

\* C18: no request, being handled or completed, has been sent more than one
\* response.
C18_AtMostOneResponse ==
  /\ \A s \in Slots : reqs[s].pc # "idle" => Len(reqs[s].responses) <= 1
  /\ last.pc = "done" => Len(last.responses) <= 1

\* A weather request that found stale rows, deleted them and fetched again
\* has been answered, once; so has one whose second provider call failed.
C18_Witness ==
  /\ last.pc = "done"
  /\ last.endpoint = "weather"
  /\ last.hit
  /\ last.deletes = 1
  /\ last.fetch \in {"ok", "failed"}
  /\ Len(last.responses) = 1

\* The table of an endpoint
TableOf(endpoint) == IF endpoint = "weather" THEN "weathers" ELSE endpoint

\* The statement is an INSERT or DELETE of the request, on the table of the
\* request's resource and for the request's location id.
OwnWrite(q, req) ==
  (q.req = req.id /\ q.op # "select" /\ req.endpoint # "location")
  => /\ q.tableName = TableOf(req.endpoint)
     /\ IF q.op = "insert"
        THEN q.row.location_id = req.data
        ELSE q.column = "location_id" /\ q.value = req.data

\* C19: every INSERT and DELETE a weather, events, movies or yelp request has
\* issued is on the table of its resource and for its location id, and a step
\* changes only the table of the statement that runs: a DELETE removes the
\* rows with the statement's location id and keeps the others as they are, an
\* INSERT adds one row, with the statement's location id.
C19_OnlyOwnRows ==
  /\ [](\A i \in 1..Len(queue) :
          /\ \A s \in Slots : reqs[s].pc # "idle" => OwnWrite(queue[i], reqs[s])
          /\ last.pc = "done" => OwnWrite(queue[i], last))
  /\ [][\A t \in TableNames :
          tables'[t] # tables[t]
          => /\ queue # <<>>
             /\ Head(queue).tableName = t
             /\ Head(queue).op # "select"
             /\ IF Head(queue).op = "delete"
                THEN tables'[t] =
                       SelectSeq(tables[t],
                                 LAMBDA row :
                                   row.location_id # Head(queue).value)
                ELSE /\ Len(tables'[t]) = Len(tables[t]) + 1
                     /\ SubSeq(tables'[t], 1, Len(tables[t])) = tables[t]
                     /\ t # "locations" =>
                          tables'[t][Len(tables'[t])].location_id
                            = Head(queue).row.location_id]_vars

\* A stale weather refresh for location 1 has deleted the stored row and
\* inserted its own; the weather row of location 2 and the stored locations,
\* events and movies are as they were.
C19_Witness ==
  /\ last.pc = "done"
  /\ last.endpoint = "weather"
  /\ last.data = 1
  /\ last.deletes = 1
  /\ last.inserts > 0
  /\ ~Pending(last.id)
  /\ last.rejected = 0
  /\ RowsOf("weathers", 1) # <<>>
  /\ \A i \in 1..Len(RowsOf("weathers", 1)) :
       RowsOf("weathers", 1)[i].created_at > 0
  /\ RowsOf("weathers", 2) = SelectSeq(SeedTables["weathers"],
                                       LAMBDA row : row.location_id = 2)
  /\ tables["locations"] = SeedTables["locations"]
  /\ tables["events"] = SeedTables["events"]
  /\ tables["movies"] = SeedTables["movies"]

====
